---- MODULE Spec2Model ----
(***************************************************************************)
(* A model of the World Courier shortest path finder (src/9.py) and of the *)
(* related-tag ranking (src/2.py).                                         *)
(*                                                                         *)
(* src/9.py: build_flight_graph builds an undirected weighted graph from a *)
(* coordinate mapping and a connection list; find_shortest_path asks       *)
(* networkx for the path (nx.shortest_path, a bidirectional Dijkstra) and  *)
(* then for the length (nx.shortest_path_length, a one-directional         *)
(* Dijkstra with a target).  Both searches are modelled iteration by       *)
(* iteration of their while loop.                                          *)
(*                                                                         *)
(* Distances are great-circle distances in whole degrees of arc (the       *)
(* kilometre value is this number times a fixed positive factor); the      *)
(* coordinates are drawn from the equator and the poles, where the         *)
(* haversine formula yields whole degrees.  Floating-point rounding is not *)
(* modelled.                                                               *)
(***************************************************************************)
EXTENDS Integers, Sequences, FiniteSets, TLC

VARIABLES
    coordinates,   \* 9.py: dict city -> (lat, lon)
    connections,   \* 9.py: list of (from_city, to_city)
    start,         \* 9.py: find_shortest_path argument
    end,           \* 9.py: find_shortest_path argument
    graph,         \* 9.py: the nx.Graph, as its adjacency G._adj
    pc,            \* position in the run
    bd,            \* state of nx.bidirectional_dijkstra (inside nx.shortest_path)
    dj,            \* state of nx's _dijkstra (inside nx.shortest_path_length)
    path,          \* 9.py: local `path` of find_shortest_path
    result,        \* what find_shortest_path gave back to its caller
    call,          \* 1 in the first call of find_shortest_path, 2 in the second
    first,         \* the result of the first call
    tag1_data,     \* 2.py: process_related_tags argument
    tag2_data,     \* 2.py: process_related_tags argument
    exclude_tags,  \* 2.py: process_related_tags argument
    best_tag       \* 2.py: what process_related_tags returned

vars == <<coordinates, connections, start, end, graph, pc, bd, dj, path, result,
          call, first, tag1_data, tag2_data, exclude_tags, best_tag>>

graphVars == <<coordinates, connections, start, end, graph, bd, dj, path, result,
               call, first>>
tagVars == <<tag1_data, tag2_data, exclude_tags, best_tag>>

-----------------------------------------------------------------------------
(* Bounds of the model *)

MaxConn == 4       \* longest connection list of a search run
MaxBuildConn == 3  \* longest connection list of a builder run
MaxTags == 2       \* longest list of related tags

-----------------------------------------------------------------------------
(* Inputs *)

City == {"A", "B", "C", "D"}
Name == City \cup {"Z"}          \* "Z" never has coordinates

\* Where the cities lie: four places on the equator, (lat, lon) in degrees.
Atlas == [A |-> <<0, 0>>, B |-> <<0, 30>>, C |-> <<0, -30>>, D |-> <<0, -60>>]

\* The same with D at the north pole.
PolarAtlas == [Atlas EXCEPT !["D"] = <<90, 0>>]

Restrict(f, S) == [x \in S |-> f[x]]

\* Coordinate mappings for the searches: every city is known.
CoordinateTables == {Restrict(Atlas, City)}

\* Coordinate mappings for the builder alone: any cities may be missing.
BuildCoordinateTables ==
    {Restrict(a, S) : a \in {Atlas, PolarAtlas}, S \in SUBSET {"A", "B", "D"}}

\* Connection rows for the searches: every unordered pair of cities, and one
\* self-referencing pair.
Rows ==
    {<<"A", "B">>, <<"B", "C">>, <<"A", "C">>, <<"A", "D">>, <<"D", "C">>,
     <<"B", "D">>, <<"A", "A">>}

\* Connection rows for the builder alone: in both orders, self-referencing,
\* and with the unknown name.
BuildRows == {<<x, y>> : x, y \in {"A", "B", "Z"}} \cup {<<"D", "A">>}

SeqsUpTo(S, n) == UNION {[1..k -> S] : k \in 0..n}

\* Lists that hold no row twice (a repeated row leaves the graph as it is).
DistinctSeqsUpTo(S, n) ==
    {s \in SeqsUpTo(S, n) : \A i, j \in 1..Len(s) : i # j => s[i] # s[j]}

-----------------------------------------------------------------------------
(* 9.py: calculate_haversine_distance *)

Abs(x) == IF x < 0 THEN -x ELSE x

IsPole(c) == c[1] = 90 \/ c[1] = -90

\* Great-circle distance in degrees of arc.  From a pole every point lies at
\* the difference of the latitudes; two points of the equator lie at the
\* difference of their longitudes, the short way round.
calculate_haversine_distance(coord1, coord2) ==
    IF IsPole(coord1) \/ IsPole(coord2)
    THEN Abs(coord1[1] - coord2[1])
    ELSE LET d == Abs(coord1[2] - coord2[2])
         IN  IF d > 180 THEN 360 - d ELSE d

-----------------------------------------------------------------------------
(* The nx.Graph: G._adj, a dict node -> dict neighbour -> weight.  A dict    *)
(* keeps its keys in insertion order, so each inner dict is a sequence of    *)
(* <<neighbour, weight>>.                                                    *)

EmptyGraph == [n \in {} |-> <<>>]

Nodes(G) == DOMAIN G

Keys(items) == {items[i][1] : i \in 1..Len(items)}

Get(items, k) == (CHOOSE i \in 1..Len(items) : items[i][1] = k)

\* dict[k] = w: an existing key keeps its position, a new key goes last.
DictSet(items, k, w) ==
    IF k \in Keys(items)
    THEN [items EXCEPT ![Get(items, k)] = <<k, w>>]
    ELSE Append(items, <<k, w>>)

Weight(G, u, v) == G[u][Get(G[u], v)][2]

HasEdge(G, u, v) == u \in Nodes(G) /\ v \in Keys(G[u])

\* G.add_node(n)
add_node(G, n) == IF n \in Nodes(G) THEN G ELSE G @@ (n :> <<>>)

\* G.add_edge(u, v, weight=w): adds missing endpoints, then sets both directions.
add_edge(G, u, v, w) ==
    LET G1 == add_node(add_node(G, u), v)
        G2 == [G1 EXCEPT ![u] = DictSet(@, v, w)]
    IN  [G2 EXCEPT ![v] = DictSet(@, u, w)]

\* G.number_of_edges(): half the sum of the degrees, a self-loop counting twice.
EdgeSet(G) == {e \in {{u, v} : u, v \in Nodes(G)} :
                  \E u, v \in e : e = {u, v} /\ HasEdge(G, u, v)}

number_of_edges(G) == Cardinality(EdgeSet(G))

-----------------------------------------------------------------------------
(* 9.py: build_flight_graph *)

\* line 129: the guard of the edge loop
ConnectionKept(coords, from_city, to_city) ==
    from_city \in DOMAIN coords /\ to_city \in DOMAIN coords

RECURSIVE AddConnections(_, _, _, _)
AddConnections(G, coords, conns, i) ==
    IF i > Len(conns) THEN G
    ELSE LET from_city == conns[i][1]
             to_city == conns[i][2]
         IN  IF ConnectionKept(coords, from_city, to_city)
             THEN AddConnections(
                      add_edge(G, from_city, to_city,
                               calculate_haversine_distance(coords[from_city],
                                                            coords[to_city])),
                      coords, conns, i + 1)
             ELSE AddConnections(G, coords, conns, i + 1)

\* A builder that also makes a node of every name a connection mentions.
BuildWithConnectionNames(coords, conns) ==
    AddConnections(
        [n \in DOMAIN coords \cup UNION {{conns[i][1], conns[i][2]} : i \in 1..Len(conns)}
            |-> <<>>],
        coords, conns, 1)

build_flight_graph(coords, conns) ==
    AddConnections([n \in DOMAIN coords |-> <<>>], coords, conns, 1)

-----------------------------------------------------------------------------
(* heapq over tuples (distance, next(c), node): heappop gives the least      *)
(* tuple; the counter c is unique, so the node is never compared.            *)

TupleLess(a, b) == a[1] < b[1] \/ (a[1] = b[1] /\ a[2] < b[2])

\* A heap of (distance, node) without the counter: any entry of the least
\* distance may come first.
HeapMinNoCounter(heap) == {e \in heap : \A f \in heap : e[1] <= f[1]}

\* The entries heappop may return.
HeapMin(heap) == {e \in heap : \A f \in heap : f = e \/ TupleLess(e, f)}

Reverse(s) == [i \in 1..Len(s) |-> s[Len(s) + 1 - i]]

Tail1(s) == SubSeq(s, 2, Len(s))

-----------------------------------------------------------------------------
(* nx.bidirectional_dijkstra(G, source, target, weight), which               *)
(* nx.shortest_path runs for a weighted source-target query.  Python's       *)
(* direction dir \in {0, 1} indexes the pairs below at dir + 1.              *)

BdInit(source, target) ==
    [dists     |-> <<EmptyGraph, EmptyGraph>>,
     paths     |-> <<(source :> <<source>>), (target :> <<target>>)>>,
     fringe    |-> <<{<<0, 0, source>>}, {<<0, 1, target>>}>>,
     seen      |-> <<(source :> 0), (target :> 0)>>,
     c         |-> 2,
     finaldist |-> 0,
     finalpath |-> <<>>,
     dir       |-> 1,
     status    |-> "running"]

BdIdle == [BdInit("A", "A") EXCEPT !.status = "idle"]

\* A relaxation that never lowers a tentative distance.
RelaxesOnlyUnseen(seen, w, vwLength) == w \notin DOMAIN seen

\* A relaxation that overwrites the tentative distance whatever it was.
RelaxesAlways(seen, w, vwLength) == TRUE

\* `elif w not in seen[dir] or vwLength < seen[dir][w]`
Relaxes(seen, w, vwLength) == w \notin DOMAIN seen \/ vwLength < seen[w]

\* A search that keeps the first meeting of the two directions.
FirstMeetingOnly(finalpath, finaldist, totaldist) == finalpath = <<>>

\* `if finalpath == [] or finaldist > totaldist`
BetterMeeting(finalpath, finaldist, totaldist) ==
    finalpath = <<>> \/ finaldist > totaldist

Put(f, k, x) == [y \in DOMAIN f \cup {k} |-> IF y = k THEN x ELSE f[y]]

\* One neighbour w of v in the loop `for w, d in neighs[dir][v].items()`.
BdNeighbour(s, dir, v, w, cost) ==
    LET k == dir + 1
        vwLength == s.dists[k][v] + cost
    IN  IF w \in DOMAIN s.dists[k]
        THEN IF vwLength < s.dists[k][w]
             THEN [s EXCEPT !.status = "ValueError"]
             ELSE s
        ELSE IF Relaxes(s.seen[k], w, vwLength)
        THEN LET seen1 == [s.seen EXCEPT ![k] = Put(@, w, vwLength)]
                 paths1 == [s.paths EXCEPT ![k] = Put(@, w, Append(s.paths[k][v], w))]
                 s1 == [s EXCEPT !.seen = seen1,
                                 !.fringe[k] = @ \cup {<<vwLength, s.c, w>>},
                                 !.c = @ + 1,
                                 !.paths = paths1]
             IN  IF w \in DOMAIN seen1[1] /\ w \in DOMAIN seen1[2]
                 THEN LET totaldist == seen1[1][w] + seen1[2][w]
                      IN  IF BetterMeeting(s.finalpath, s.finaldist, totaldist)
                          THEN [s1 EXCEPT
                                   !.finaldist = totaldist,
                                   !.finalpath = paths1[1][w] \o
                                                 Tail1(Reverse(paths1[2][w]))]
                          ELSE s1
                 ELSE s1
        ELSE s

RECURSIVE BdNeighbours(_, _, _, _, _)
BdNeighbours(s, dir, v, items, i) ==
    IF i > Len(items) \/ s.status # "running" THEN s
    ELSE BdNeighbours(BdNeighbour(s, dir, v, items[i][1], items[i][2]),
                      dir, v, items, i + 1)

\* One iteration of `while fringe[0] and fringe[1]` that pops the entry e.
BdIteration(G, s, e) ==
    LET dir == 1 - s.dir
        k == dir + 1
        dist == e[1]
        v == e[3]
        s1 == [s EXCEPT !.dir = dir, !.fringe[k] = @ \ {e}]
    IN  IF v \in DOMAIN s.dists[k]
        THEN s1
        ELSE LET s2 == [s1 EXCEPT !.dists[k] = Put(@, v, dist)]
             IN  IF v \in DOMAIN s.dists[3 - k]
                 THEN [s2 EXCEPT !.status = "returned"]
                 ELSE BdNeighbours(s2, dir, v, G[v], 1)

-----------------------------------------------------------------------------
(* nx's _dijkstra(G, source, weight, target=target), which                   *)
(* nx.dijkstra_path_length runs inside nx.shortest_path_length.              *)

DjInit(source) ==
    [dist   |-> EmptyGraph,
     seen   |-> (source :> 0),
     fringe |-> {<<0, 0, source>>},
     c      |-> 1,
     status |-> "running"]

DjIdle == [DjInit("A") EXCEPT !.status = "idle"]

DjNeighbour(s, v, u, cost) ==
    LET vu_dist == s.dist[v] + cost
    IN  IF u \in DOMAIN s.dist
        THEN IF vu_dist < s.dist[u]
             THEN [s EXCEPT !.status = "ValueError"]
             ELSE s
        ELSE IF Relaxes(s.seen, u, vu_dist)
        THEN [s EXCEPT !.seen = Put(@, u, vu_dist),
                       !.fringe = @ \cup {<<vu_dist, s.c, u>>},
                       !.c = @ + 1]
        ELSE s

RECURSIVE DjNeighbours(_, _, _, _)
DjNeighbours(s, v, items, i) ==
    IF i > Len(items) \/ s.status # "running" THEN s
    ELSE DjNeighbours(DjNeighbour(s, v, items[i][1], items[i][2]), v, items, i + 1)

\* One iteration of `while fringe` that pops the entry e.
DjIteration(G, s, target, e) ==
    LET d == e[1]
        v == e[3]
        s1 == [s EXCEPT !.fringe = @ \ {e}]
    IN  IF v \in DOMAIN s.dist
        THEN s1
        ELSE LET s2 == [s1 EXCEPT !.dist = Put(@, v, d)]
             IN  IF v = target
                 THEN [s2 EXCEPT !.status = "break"]
                 ELSE DjNeighbours(s2, v, G[v], 1)

-----------------------------------------------------------------------------
(* 9.py: find_shortest_path, and a caller that builds the graph first        *)

Infinity == 1000000      \* float('inf')

Pending == [kind |-> "pending", path |-> <<>>, distance |-> 0,
            exc |-> "", names |-> {}]

Returned(p, d) == [kind |-> "returned", path |-> p, distance |-> d,
                   exc |-> "", names |-> {}]

Raised(e, ns) == [kind |-> "raised", path |-> <<>>, distance |-> 0,
                  exc |-> e, names |-> ns]

\* line 154-155: `except nx.NetworkXNoPath: return [], float('inf')`
NoPathResult == Returned(<<>>, Infinity)

\* The names in the message of the NodeNotFound that bidirectional_dijkstra
\* raises.  networkx >= 3.0 holds both forms: "Either source {source} or
\* target {target} is not in G", and the later "Source {source} is not in G" /
\* "Target {target} is not in G", tested in this order.
NodeNotFoundNames(G, source, target) ==
    {{source, target},
     IF source \notin Nodes(G) THEN {source} ELSE {target}}

Init ==
    /\ coordinates \in CoordinateTables
    /\ connections \in DistinctSeqsUpTo(Rows, MaxConn)
    /\ start \in Name
    /\ end \in Name
    /\ graph = EmptyGraph
    /\ pc = "build"
    /\ bd = BdIdle
    /\ dj = DjIdle
    /\ path = <<>>
    /\ result = Pending
    /\ call = 1
    /\ first = Pending
    /\ tag1_data = <<>>
    /\ tag2_data = <<>>
    /\ exclude_tags = <<>>
    /\ best_tag = ""

\* main, line 191: graph = build_flight_graph(coordinates, connections)
Build ==
    /\ pc = "build"
    /\ graph' = build_flight_graph(coordinates, connections)
    /\ pc' = "call"
    /\ UNCHANGED <<coordinates, connections, start, end, bd, dj, path, result,
                   call, first, tagVars>>

\* A find_shortest_path that catches NodeNotFound like NetworkXNoPath.
NodeNotFoundCaught ==
    /\ pc = "call"
    /\ start \notin Nodes(graph) \/ end \notin Nodes(graph)
    /\ result' = NoPathResult
    /\ pc' = "done"
    /\ UNCHANGED <<coordinates, connections, start, end, graph, bd, dj, path,
                   call, first, tagVars>>

\* line 151, nx.shortest_path -> bidirectional_dijkstra: a name that is not a
\* node raises NodeNotFound, which find_shortest_path does not catch.
ShortestPathNodeNotFound ==
    /\ pc = "call"
    /\ start \notin Nodes(graph) \/ end \notin Nodes(graph)
    /\ \E ns \in NodeNotFoundNames(graph, start, end) :
          result' = Raised("NodeNotFound", ns)
    /\ pc' = "done"
    /\ UNCHANGED <<coordinates, connections, start, end, graph, bd, dj, path,
                   call, first, tagVars>>

\* A search from a node to itself that gives the node twice.
SameNodeTwice ==
    /\ pc = "call"
    /\ start \in Nodes(graph) /\ end \in Nodes(graph)
    /\ start = end
    /\ path' = <<start, end>>
    /\ pc' = "length"
    /\ UNCHANGED <<coordinates, connections, start, end, graph, bd, dj, result,
                   call, first, tagVars>>

\* line 151, bidirectional_dijkstra: `if source == target: return (0, [source])`
ShortestPathSame ==
    /\ pc = "call"
    /\ start \in Nodes(graph) /\ end \in Nodes(graph)
    /\ start = end
    /\ path' = <<start>>
    /\ pc' = "length"
    /\ UNCHANGED <<coordinates, connections, start, end, graph, bd, dj, result,
                   call, first, tagVars>>

\* line 151, bidirectional_dijkstra: the search is set up
ShortestPathSearch ==
    /\ pc = "call"
    /\ start \in Nodes(graph) /\ end \in Nodes(graph)
    /\ start # end
    /\ bd' = BdInit(start, end)
    /\ pc' = "bidir"
    /\ UNCHANGED <<coordinates, connections, start, end, graph, dj, path, result,
                   call, first, tagVars>>

\* line 151, bidirectional_dijkstra: one iteration of the while loop
BidirectionalStep ==
    /\ pc = "bidir"
    /\ bd.fringe[1] # {} /\ bd.fringe[2] # {}
    /\ \E e \in HeapMin(bd.fringe[2 - bd.dir]) :
          LET s == BdIteration(graph, bd, e)
          IN  /\ bd' = s
              /\ IF s.status = "returned"
                 THEN path' = s.finalpath /\ pc' = "length" /\ result' = result
                 ELSE IF s.status = "ValueError"
                 THEN path' = path /\ pc' = "done"
                      /\ result' = Raised("ValueError", {})
                 ELSE path' = path /\ pc' = "bidir" /\ result' = result
    /\ UNCHANGED <<coordinates, connections, start, end, graph, dj,
                   call, first, tagVars>>

\* A find_shortest_path without the except clause.
NoPathUncaught ==
    /\ pc = "bidir"
    /\ bd.fringe[1] = {} \/ bd.fringe[2] = {}
    /\ bd' = [bd EXCEPT !.status = "NetworkXNoPath"]
    /\ result' = Raised("NetworkXNoPath", {})
    /\ pc' = "done"
    /\ UNCHANGED <<coordinates, connections, start, end, graph, dj, path,
                   call, first, tagVars>>

\* line 151, bidirectional_dijkstra: a fringe is empty, NetworkXNoPath is
\* raised; line 154-155 catch it.
BidirectionalNoPath ==
    /\ pc = "bidir"
    /\ bd.fringe[1] = {} \/ bd.fringe[2] = {}
    /\ bd' = [bd EXCEPT !.status = "NetworkXNoPath"]
    /\ result' = NoPathResult
    /\ pc' = "done"
    /\ UNCHANGED <<coordinates, connections, start, end, graph, dj, path,
                   call, first, tagVars>>

\* line 152, nx.shortest_path_length -> dijkstra_path_length:
\* `if source == target: return 0`; line 153 returns.
LengthSame ==
    /\ pc = "length"
    /\ start = end
    /\ result' = IF start \in Nodes(graph)
                 THEN Returned(path, 0)
                 ELSE Raised("NodeNotFound", {start})
    /\ pc' = "done"
    /\ UNCHANGED <<coordinates, connections, start, end, graph, bd, dj, path,
                   call, first, tagVars>>

\* line 152, dijkstra_path_length: _dijkstra is set up
LengthSearch ==
    /\ pc = "length"
    /\ start # end
    /\ IF start \in Nodes(graph)
       THEN dj' = DjInit(start) /\ pc' = "dijkstra" /\ result' = result
       ELSE dj' = dj /\ pc' = "done" /\ result' = Raised("NodeNotFound", {start})
    /\ UNCHANGED <<coordinates, connections, start, end, graph, bd, path,
                   call, first, tagVars>>

\* line 152, _dijkstra: one iteration of the while loop
DijkstraStep ==
    /\ pc = "dijkstra"
    /\ dj.status = "running"
    /\ dj.fringe # {}
    /\ \E e \in HeapMin(dj.fringe) :
          LET s == DjIteration(graph, dj, end, e)
          IN  /\ dj' = s
              /\ IF s.status = "ValueError"
                 THEN pc' = "done" /\ result' = Raised("ValueError", {})
                 ELSE pc' = "dijkstra" /\ result' = result
    /\ UNCHANGED <<coordinates, connections, start, end, graph, bd, path,
                   call, first, tagVars>>

\* line 152, dijkstra_path_length: `return length[target]`, a KeyError
\* becoming NetworkXNoPath (caught at line 154); line 153 returns.
LengthReturn ==
    /\ pc = "dijkstra"
    /\ dj.status = "break" \/ dj.fringe = {}
    /\ result' = IF end \in DOMAIN dj.dist
                 THEN Returned(path, dj.dist[end])
                 ELSE NoPathResult
    /\ dj' = [dj EXCEPT !.status = "done"]
    /\ pc' = "done"
    /\ UNCHANGED <<coordinates, connections, start, end, graph, bd, path,
                   call, first, tagVars>>

\* The caller asks again, with the same graph, start and end.
CallAgain ==
    /\ pc = "done"
    /\ call = 1
    /\ call' = 2
    /\ first' = result
    /\ result' = Pending
    /\ path' = <<>>
    /\ bd' = BdIdle
    /\ dj' = DjIdle
    /\ pc' = "call"
    /\ UNCHANGED <<coordinates, connections, start, end, graph, tagVars>>

Next ==
    \/ Build
    \/ ShortestPathNodeNotFound
    \/ ShortestPathSame
    \/ ShortestPathSearch
    \/ BidirectionalStep
    \/ BidirectionalNoPath
    \/ LengthSame
    \/ LengthSearch
    \/ DijkstraStep
    \/ LengthReturn
    \/ CallAgain

Spec == Init /\ [][Next]_vars

-----------------------------------------------------------------------------
(* The builder alone, over mappings with missing cities and lists with       *)
(* repeated, reversed, self-referencing and unknown rows.                    *)

InitBuild ==
    /\ coordinates \in BuildCoordinateTables
    /\ connections \in SeqsUpTo(BuildRows, MaxBuildConn)
    /\ start = "A"
    /\ end = "A"
    /\ graph = EmptyGraph
    /\ pc = "build"
    /\ bd = BdIdle
    /\ dj = DjIdle
    /\ path = <<>>
    /\ result = Pending
    /\ call = 1
    /\ first = Pending
    /\ tag1_data = <<>>
    /\ tag2_data = <<>>
    /\ exclude_tags = <<>>
    /\ best_tag = ""

NextBuild == Build

SpecBuild == InitBuild /\ [][NextBuild]_vars

-----------------------------------------------------------------------------
(* 2.py: process_related_tags *)

\* The items of an API response: dicts that may lack 'name' or 'count'.
TagEntries ==
    {[name |-> "a", count |-> 1],
     [name |-> "b", count |-> 1],
     [name |-> "b", count |-> 3],
     [name |-> "c", count |-> 2],
     [name |-> "", count |-> 3],
     [count |-> 3],
     [name |-> "c"]}

ExcludeLists == {<<>>, <<"b">>, <<"c", "b">>}

\* tag.get(key, default)
TagGet(tag, key, default) == IF key \in DOMAIN tag THEN tag[key] ELSE default

\* lines 114-118 and 121-125: the loop over one list, from entry i on.
\* combined_counts is a dict, kept as its items in insertion order.
RECURSIVE AddCounts(_, _, _)
AddCounts(combined_counts, data, i) ==
    IF i > Len(data) THEN combined_counts
    ELSE LET tag_name == TagGet(data[i], "name", "")
             count == TagGet(data[i], "count", 0)
         IN  IF tag_name # ""
             THEN AddCounts(
                      DictSet(combined_counts, tag_name,
                              (IF tag_name \in Keys(combined_counts)
                               THEN combined_counts[Get(combined_counts, tag_name)][2]
                               ELSE 0) + count),
                      data, i + 1)
             ELSE AddCounts(combined_counts, data, i + 1)

\* A descending sort that puts an item before the items of equal count.
InsertBeforeEqual(sorted, item) ==
    LET ahead == {i \in 1..Len(sorted) : sorted[i][2] > item[2]}
        n == IF ahead = {} THEN 0
             ELSE CHOOSE i \in ahead : \A j \in ahead : j <= i
    IN  SubSeq(sorted, 1, n) \o <<item>> \o SubSeq(sorted, n + 1, Len(sorted))

\* Where `item` goes in a list sorted by count, descending: behind every item
\* whose count is not smaller, so that equal counts keep their order.
InsertDescending(sorted, item) ==
    LET ahead == {i \in 1..Len(sorted) : sorted[i][2] >= item[2]}
        n == IF ahead = {} THEN 0
             ELSE CHOOSE i \in ahead : \A j \in ahead : j <= i
    IN  SubSeq(sorted, 1, n) \o <<item>> \o SubSeq(sorted, n + 1, Len(sorted))

\* line 128: sorted(items, key=lambda x: x[1], reverse=True), a stable sort
RECURSIVE SortedDescending(_, _)
SortedDescending(items, i) ==
    IF i = 0 THEN <<>>
    ELSE InsertDescending(SortedDescending(items, i - 1), items[i])

\* lines 130-135: the first tag of the sorted list that is not excluded
RECURSIVE FirstNotExcluded(_, _, _)
FirstNotExcluded(sorted_tags, exclude, i) ==
    IF i > Len(sorted_tags) THEN ""
    ELSE IF sorted_tags[i][1] \notin {exclude[j] : j \in 1..Len(exclude)}
    THEN sorted_tags[i][1]
    ELSE FirstNotExcluded(sorted_tags, exclude, i + 1)

process_related_tags(data1, data2, exclude) ==
    LET combined_counts == AddCounts(AddCounts(<<>>, data1, 1), data2, 1)
        sorted_tags == SortedDescending(combined_counts, Len(combined_counts))
    IN  FirstNotExcluded(sorted_tags, exclude, 1)

InitTags ==
    /\ tag1_data \in SeqsUpTo(TagEntries, MaxTags)
    /\ tag2_data \in SeqsUpTo(TagEntries, MaxTags)
    /\ exclude_tags \in ExcludeLists
    /\ best_tag = ""
    /\ pc = "tags"
    /\ coordinates = Restrict(Atlas, {})
    /\ connections = <<>>
    /\ start = "A"
    /\ end = "A"
    /\ graph = EmptyGraph
    /\ bd = BdIdle
    /\ dj = DjIdle
    /\ path = <<>>
    /\ result = Pending
    /\ call = 1
    /\ first = Pending

\* main, line 193: best_tag = process_related_tags(tag1_related, tag2_related, ...)
ProcessRelatedTags ==
    /\ pc = "tags"
    /\ best_tag' = process_related_tags(tag1_data, tag2_data, exclude_tags)
    /\ pc' = "tagsdone"
    /\ UNCHANGED <<graphVars, tag1_data, tag2_data, exclude_tags>>

NextTags == ProcessRelatedTags

SpecTags == InitTags /\ [][NextTags]_vars

-----------------------------------------------------------------------------
(* What the claims compare the program with, computed from the graph and    *)
(* the coordinates alone, without the searches.                              *)

Last(s) == s[Len(s)]

\* The walks from s with at most n nodes.
RECURSIVE WalksFrom(_, _, _)
WalksFrom(G, s, n) ==
    IF n <= 1 THEN {<<s>>}
    ELSE LET W == WalksFrom(G, s, n - 1)
         IN  W \cup UNION {{Append(p, v) : v \in Keys(G[Last(p)])} : p \in W}

\* The walks from s to e with at most one node more than the graph has:
\* every simple path, and walks that repeat a node.
Walks(G, s, e) ==
    IF s \notin Nodes(G) \/ e \notin Nodes(G) THEN {}
    ELSE {p \in WalksFrom(G, s, Cardinality(Nodes(G)) + 1) : Last(p) = e}

IsWalk(G, p) ==
    /\ Len(p) >= 1
    /\ \A i \in 1..Len(p) : p[i] \in Nodes(G)
    /\ \A i \in 1..(Len(p) - 1) : HasEdge(G, p[i], p[i + 1])

RECURSIVE WalkWeight(_, _)
WalkWeight(G, p) ==
    IF Len(p) <= 1 THEN 0
    ELSE Weight(G, p[1], p[2]) + WalkWeight(G, Tail1(p))

\* main, lines 207-214: the segments' distances, from the coordinates
RECURSIVE SegmentSum(_, _)
SegmentSum(coords, p) ==
    IF Len(p) <= 1 THEN 0
    ELSE calculate_haversine_distance(coords[p[1]], coords[p[2]])
         + SegmentSum(coords, Tail1(p))

IsSimple(p) == \A i, j \in 1..Len(p) : i # j => p[i] # p[j]

Connected(G, s, e) == Walks(G, s, e) # {}

MinDist(G, s, e) ==
    LET ws == {WalkWeight(G, p) : p \in Walks(G, s, e)}
    IN  CHOOSE d \in ws : \A x \in ws : d <= x

BothNodes == start \in Nodes(graph) /\ end \in Nodes(graph)

Done == pc = "done"

-----------------------------------------------------------------------------
(* Claims *)

\* C1: for distinct connected nodes start and end, find_shortest_path returns
\* a path that begins with start, ends with end, whose consecutive pairs are
\* edges of the graph, and whose weight is at most that of every other
\* start-to-end path.
C1_ShortestPath ==
    (Done /\ BothNodes /\ start # end /\ Connected(graph, start, end)) =>
        /\ result.kind = "returned"
        /\ IsWalk(graph, result.path)
        /\ result.path[1] = start
        /\ Last(result.path) = end
        /\ \A q \in Walks(graph, start, end) :
              WalkWeight(graph, result.path) <= WalkWeight(graph, q)

\* A direct edge was returned although a longer detour exists.
C1_Witness ==
    /\ Done /\ start # end
    /\ result.kind = "returned"
    /\ Len(result.path) = 2
    /\ \E q \in Walks(graph, start, end) :
          /\ Len(q) = 3
          /\ q[2] \notin {start, end}
          /\ WalkWeight(graph, q) > WalkWeight(graph, result.path)

\* C2: whenever a non-empty path is returned, the returned distance is the
\* sum of the distances of the path's segments, recomputed from the
\* coordinates.
C2_DistanceIsPathSum ==
    (Done /\ result.kind = "returned" /\ result.path # <<>>) =>
        /\ result.distance = SegmentSum(coordinates, result.path)
        /\ result.distance = WalkWeight(graph, result.path)

\* A path of two edges was returned while another path of the same least
\* weight exists.
C2_Witness ==
    /\ Done
    /\ result.kind = "returned"
    /\ Len(result.path) >= 3
    /\ \E q \in Walks(graph, start, end) :
          /\ IsSimple(q)
          /\ q # result.path
          /\ WalkWeight(graph, q) = result.distance

\* C3: if start or end is not a node, the call fails with NodeNotFound, whose
\* message names a missing value (the missing one when only one is missing),
\* and gives neither a path nor the no-path result.
C3_NodeNotFound ==
    (Done /\ ~BothNodes) =>
        /\ result.kind = "raised"
        /\ result.exc = "NodeNotFound"
        /\ result.names \cap ({start, end} \ Nodes(graph)) # {}
        /\ (start \in Nodes(graph) => end \in result.names)
        /\ (end \in Nodes(graph) => start \in result.names)

\* The absent name was asked for as start and as end at once.
C3_Witness ==
    /\ Done
    /\ start = end
    /\ start \notin Nodes(graph)
    /\ result.kind = "raised"

\* C4: two nodes of the graph that no path connects give the no-path result,
\* an empty path with weight +infinity, returned and not raised; and the
\* empty path or the infinite weight is returned only then.
C4_NoPath ==
    /\ (Done /\ BothNodes /\ ~Connected(graph, start, end)) =>
           result = NoPathResult
    /\ (Done /\ result.kind = "returned"
             /\ (result.path = <<>> \/ result.distance = Infinity)) =>
           /\ result = NoPathResult
           /\ BothNodes
           /\ ~Connected(graph, start, end)

\* Both nodes have edges, and no path connects them.
C4_Witness ==
    /\ Done
    /\ result = NoPathResult
    /\ graph[start] # <<>>
    /\ graph[end] # <<>>

\* C5: for a node X of the graph, the path from X to X is [X] with weight 0,
\* whatever edges X has.
C5_SameNode ==
    (Done /\ BothNodes /\ start = end) => result = Returned(<<start>>, 0)

\* X has an edge to another node and an edge to itself.
C5_Witness ==
    /\ Done
    /\ start = end
    /\ result.kind = "returned"
    /\ HasEdge(graph, start, start)
    /\ Len(graph[start]) >= 2

\* The unordered pairs of distinct names with coordinates that the connection
\* list holds.
KnownDistinctPairs ==
    {{connections[i][1], connections[i][2]} :
        i \in {j \in 1..Len(connections) :
                  /\ connections[j][1] # connections[j][2]
                  /\ connections[j][1] \in DOMAIN coordinates
                  /\ connections[j][2] \in DOMAIN coordinates}}

Built == pc # "build"

\* C6: the built graph has no self-loop, and as many edges as the connection
\* list holds distinct unordered pairs of known, distinct names.
C6_NoSelfLoops ==
    Built =>
        /\ \A u \in Nodes(graph) : ~HasEdge(graph, u, u)
        /\ number_of_edges(graph) = Cardinality(KnownDistinctPairs)

\* C7: after build the nodes are exactly the keys of the coordinate mapping,
\* every edge joins two of them, and a connection with a name that has no
\* coordinates added no edge.
C7_UnknownDropped ==
    Built =>
        /\ Nodes(graph) = DOMAIN coordinates
        /\ \A u \in Nodes(graph) : Keys(graph[u]) \subseteq DOMAIN coordinates
        /\ \A i \in 1..Len(connections) :
              (connections[i][1] \notin DOMAIN coordinates
               \/ connections[i][2] \notin DOMAIN coordinates) =>
                  ~HasEdge(graph, connections[i][1], connections[i][2])

\* The list held a connection with an unknown name and one between known names.
C7_Witness ==
    /\ Built
    /\ \E i \in 1..Len(connections) :
          /\ connections[i][1] \in DOMAIN coordinates
          /\ connections[i][2] \notin DOMAIN coordinates
    /\ \E u, v \in Nodes(graph) : u # v /\ HasEdge(graph, u, v)

\* C8: equal tentative distances are popped in insertion order, one entry
\* only being next at every pop, and a second call with the same graph,
\* start and end returns the same path and the same weight as the first.
C8_Deterministic ==
    /\ (pc = "bidir" /\ bd.fringe[1] # {} /\ bd.fringe[2] # {}) =>
           \E e \in bd.fringe[2 - bd.dir] :
              /\ HeapMin(bd.fringe[2 - bd.dir]) = {e}
              /\ \A f \in bd.fringe[2 - bd.dir] :
                    e[1] < f[1] \/ (e[1] = f[1] /\ e[2] <= f[2])
    /\ (pc = "dijkstra" /\ dj.status = "running" /\ dj.fringe # {}) =>
           \E e \in dj.fringe :
              /\ HeapMin(dj.fringe) = {e}
              /\ \A f \in dj.fringe :
                    e[1] < f[1] \/ (e[1] = f[1] /\ e[2] <= f[2])
    /\ (Done /\ call = 2) =>
           /\ result.kind = first.kind
           /\ result.path = first.path
           /\ result.distance = first.distance

\* The second call returned, and another path of the same least weight exists.
C8_Witness ==
    /\ Done /\ call = 2
    /\ result.kind = "returned"
    /\ result.path # <<>>
    /\ \E q \in Walks(graph, start, end) :
          /\ IsSimple(q)
          /\ q # result.path
          /\ WalkWeight(graph, q) = result.distance

\* The state of node v in a search: 0 unvisited, 1 frontier, 2 finalized.
NodeState(seen, dist, v) ==
    IF v \in DOMAIN dist THEN 2 ELSE IF v \in DOMAIN seen THEN 1 ELSE 0

\* One step of a search from `origin`, from (seen, dist) to (seen2, dist2).
NodeMoves(seen, dist, seen2, dist2, origin) ==
    \A v \in Nodes(graph) :
        LET r == NodeState(seen, dist, v)
            r2 == NodeState(seen2, dist2, v)
        IN  /\ r2 \in {r, r + 1}
            /\ (r = 1 /\ r2 = 1) => seen2[v] <= seen[v]
            /\ (r = 2) => dist2[v] = dist[v]
            /\ (r # 2 /\ r2 = 2) => dist2[v] = MinDist(graph, origin, v)

SearchMoves ==
    /\ (pc = "bidir") =>
           /\ NodeMoves(bd.seen[1], bd.dists[1], bd'.seen[1], bd'.dists[1], start)
           /\ NodeMoves(bd.seen[2], bd.dists[2], bd'.seen[2], bd'.dists[2], end)
    /\ (pc = "dijkstra") =>
           NodeMoves(dj.seen, dj.dist, dj'.seen, dj'.dist, start)

\* The length search goes on while the end node is not finalized and stops
\* when it is or when the frontier is empty.
LengthSearchStops ==
    /\ (pc = "dijkstra" /\ pc' = "dijkstra") => end \notin DOMAIN dj.dist
    /\ (pc = "dijkstra" /\ pc' # "dijkstra") =>
           end \in DOMAIN dj.dist \/ dj.fringe = {}

MetInBothDirections(s) ==
    \E v \in Nodes(graph) : v \in DOMAIN s.dists[1] /\ v \in DOMAIN s.dists[2]

AllTags == tag1_data \o tag2_data

NameOf(tag) == IF "name" \in DOMAIN tag THEN tag.name ELSE ""

CountOf(tag) == IF "count" \in DOMAIN tag THEN tag.count ELSE 0

Named == {NameOf(AllTags[i]) : i \in 1..Len(AllTags)} \ {""}

Excluded == {exclude_tags[j] : j \in 1..Len(exclude_tags)}

RECURSIVE CountsFrom(_, _)
CountsFrom(n, i) ==
    IF i > Len(AllTags) THEN 0
    ELSE (IF NameOf(AllTags[i]) = n THEN CountOf(AllTags[i]) ELSE 0)
         + CountsFrom(n, i + 1)

CombinedCount(n) == CountsFrom(n, 1)

FirstSeen(n) ==
    CHOOSE i \in 1..Len(AllTags) :
        /\ NameOf(AllTags[i]) = n
        /\ \A j \in 1..(i - 1) : NameOf(AllTags[j]) # n

\* C10: process_related_tags returns a name that is not excluded, that no
\* non-excluded name beats in combined count, and that was met first among
\* the non-excluded names of that count; it returns the empty string exactly
\* when no named entry is left after the exclusion.
C10_BestTag ==
    pc = "tagsdone" =>
        /\ best_tag \notin Excluded
        /\ (best_tag = "") <=> (Named \ Excluded = {})
        /\ (best_tag # "") =>
              /\ best_tag \in Named
              /\ \A n \in Named \ Excluded :
                    /\ CombinedCount(n) <= CombinedCount(best_tag)
                    /\ (CombinedCount(n) = CombinedCount(best_tag)) =>
                           FirstSeen(best_tag) <= FirstSeen(n)

\* The returned name ties with a later name, its count summed over both
\* lists, while an excluded name has a larger count.
C10_Witness ==
    /\ pc = "tagsdone"
    /\ best_tag # ""
    /\ \E i \in 1..Len(tag1_data) : NameOf(tag1_data[i]) = best_tag
    /\ \E i \in 1..Len(tag2_data) : NameOf(tag2_data[i]) = best_tag
    /\ \E n \in Named \ Excluded :
          n # best_tag /\ CombinedCount(n) = CombinedCount(best_tag)
    /\ \E n \in Named \cap Excluded : CombinedCount(n) > CombinedCount(best_tag)

====
